---- MODULE Spec2Model ----
(***************************************************************************)
(* Model of the two auxiliary HTTP servers of the repository:              *)
(*   src/docker/mock-hydra-server.py  (Mock API Server on port 3000 and    *)
(*                                     its built-in health listener)       *)
(*   src/docker/health-check.py       (probing Health Check Server)        *)
(*                                                                         *)
(* Text (request paths, header values, form bodies) is a sequence of       *)
(* tokens.  A token is one character ("/", "?", "=", "&", "-", a digit,    *)
(* the undecodable byte) or a whole lower-case word.  No word of the       *)
(* alphabet is a prefix of another one that the code searches for, so      *)
(* startswith / split / "in" on token sequences agree with the same        *)
(* operations on the character strings.                                    *)
(***************************************************************************)
EXTENDS Integers, Sequences, FiniteSets, TLC

VARIABLES
    projects_storage,   \* mock-hydra-server.py: the module-level dict
    mock_running,       \* the mock-hydra-server.py process is alive
    pc,                 \* position of the Mock API handler thread
    cur,                \* the exchange the Mock API Server handled last
    prev,               \* the exchange completed before cur
    health,             \* the last exchange of a health listener
    turn                \* the operation that produced the current state

vars == <<projects_storage, mock_running, pc, cur, prev, health, turn>>

-----------------------------------------------------------------------------
(* Bounds of the model *)

\* longest request path, in segments, of the routing specification
MaxSegs == 3
\* most parameters of a URL-encoded login body
MaxParams == 2
\* longest project name, in segments, of a /project/ path
MaxNameSegs == 1

-----------------------------------------------------------------------------
(* Text *)

Digits == {"0", "1", "2", "3", "4", "5", "6", "7", "8", "9"}

DigitVal(d) ==
    CASE d = "0" -> 0 [] d = "1" -> 1 [] d = "2" -> 2 [] d = "3" -> 3
      [] d = "4" -> 4 [] d = "5" -> 5 [] d = "6" -> 6 [] d = "7" -> 7
      [] d = "8" -> 8 [] d = "9" -> 9

\* a byte that is not valid UTF-8
BadByte == "0xff"

NonLetters == Digits \cup {"/", "?", "=", "&", "-", BadByte}

\* str.startswith
StartsWith(s, p) ==
    /\ Len(s) >= Len(p)
    /\ SubSeq(s, 1, Len(p)) = p

\* the operator "in" on two strings
Contains(s, p) ==
    \E i \in 1..(Len(s) + 1) :
        /\ i + Len(p) - 1 <= Len(s)
        /\ SubSeq(s, i, i + Len(p) - 1) = p

RECURSIVE SplitFrom(_, _, _, _)
SplitFrom(s, sep, i, acc) ==
    IF i > Len(s) THEN <<acc>>
    ELSE IF s[i] = sep THEN <<acc>> \o SplitFrom(s, sep, i + 1, <<>>)
    ELSE SplitFrom(s, sep, i + 1, Append(acc, s[i]))

\* str.split(sep) for a one-character separator
Split(s, sep) == SplitFrom(s, sep, 1, <<>>)

\* parts[-1]
Last(parts) == parts[Len(parts)]

RECURSIVE Horner(_, _, _)
Horner(s, i, acc) ==
    IF i > Len(s) THEN acc
    ELSE Horner(s, i + 1, 10 * acc + DigitVal(s[i]))

AllDigits(s) == Len(s) > 0 /\ \A i \in 1..Len(s) : s[i] \in Digits

\* int(text): [ok |-> FALSE] stands for ValueError
ParseInt(s) ==
    IF AllDigits(s) THEN [ok |-> TRUE, n |-> Horner(s, 1, 0)]
    ELSE IF Len(s) > 1 /\ s[1] = "-" /\ AllDigits(Tail(s))
         THEN [ok |-> TRUE, n |-> 0 - Horner(Tail(s), 1, 0)]
    ELSE [ok |-> FALSE, n |-> 0]

\* all sequences over S of lengths lo..hi
SeqsOf(S, lo, hi) == UNION {[1..k -> S] : k \in lo..hi}

RECURSIVE Join(_, _, _)
\* sep.join(parts), from part i on
Join(parts, sep, i) ==
    IF i > Len(parts) THEN <<>>
    ELSE IF i = Len(parts) THEN parts[i]
    ELSE parts[i] \o <<sep>> \o Join(parts, sep, i + 1)

Capital(w) ==
    CASE w = "nixpkgs" -> "Nixpkgs"
      [] w = "hydra"   -> "Hydra"
      [] w = "foo"     -> "Foo"
      [] w = "bar"     -> "Bar"
      [] OTHER         -> "^" \o w

\* str.title(): a word is capitalised where it follows the start of the
\* string or an uncased character, and stays lower-case after a letter
Title(s) ==
    [i \in 1..Len(s) |->
        IF s[i] \in NonLetters THEN s[i]
        ELSE IF i = 1 \/ s[i - 1] \in NonLetters THEN Capital(s[i])
        ELSE s[i]]

-----------------------------------------------------------------------------
(* JSON values, tagged by their type *)

JStr(s)  == [t |-> "str",  v |-> s]
JBool(b) == [t |-> "bool", v |-> b]
JNum(n)  == [t |-> "num",  v |-> n]
JArr(n)  == [t |-> "arr",  v |-> n]
JNull    == [t |-> "null", v |-> 0]
\* a key that an object does not carry
Absent   == [t |-> "absent", v |-> 0]
\* a JSON object, by the keys the handlers look up and one more ("note")
JObj(u, p, d, e, n) ==
    [t |-> "obj",
     v |-> [username |-> u, password |-> p, displayname |-> d,
            enabled |-> e, note |-> n]]

\* dict.get(key) / dict.get(key, default) on a parsed object
DictGet(obj, key, default) ==
    IF obj.v[key] = Absent THEN default ELSE obj.v[key]

-----------------------------------------------------------------------------
(* Request bodies.  A body is raw text (tokens) or the text of a JSON      *)
(* document, which is kept as the document it denotes.                     *)

Raw(toks)  == [t |-> "raw",  v |-> toks]
JsonText(val) == [t |-> "json", v |-> val]
EmptyBody  == Raw(<<>>)

\* truth value of a bytes object
NonEmpty(body) == body # EmptyBody

UsernameEq == <<"username", "=">>
PasswordEq == <<"password", "=">>

StrHas(val, p) == val.t = "str" /\ Contains(val.v, p)

\* b'username=' in post_data
HasUsernameEq(body) ==
    IF body.t = "raw" THEN Contains(body.v, UsernameEq)
    ELSE IF body.v.t = "obj"
         THEN \E key \in DOMAIN body.v.v : StrHas(body.v.v[key], UsernameEq)
    ELSE StrHas(body.v, UsernameEq)

\* the characters of a string value as they stand in the JSON text
Quoted(val) == IF val.t = "str" THEN <<"'">> \o val.v \o <<"'">> ELSE <<>>

\* post_data.decode('utf-8') as text: a JSON document shows its braces and
\* the contents of its strings
BodyText(body) ==
    IF body.t = "raw" THEN body.v
    ELSE IF body.v.t = "obj"
         THEN <<"{">> \o Quoted(body.v.v.username) \o Quoted(body.v.v.password)
              \o Quoted(body.v.v.displayname) \o Quoted(body.v.v.note)
              \o <<"}">>
    ELSE <<"[">> \o Quoted(body.v) \o <<"]">>

\* post_data.decode('utf-8'): fails on an undecodable byte
Decodes(body) ==
    body.t = "json" \/ \A i \in 1..Len(body.v) : body.v[i] # BadByte

\* json.loads(text): raw text is a JSON document only when it is a number
JsonLoads(body) ==
    IF body.t = "json" THEN [ok |-> TRUE, val |-> body.v]
    ELSE IF ParseInt(body.v).ok /\ (body.v[1] # "0" \/ Len(body.v) = 1)
         THEN [ok |-> TRUE, val |-> JNum(ParseInt(body.v).n)]
    ELSE [ok |-> FALSE, val |-> JNull]

-----------------------------------------------------------------------------
(* Requests and responses *)

NoHeader == [present |-> FALSE, text |-> <<>>]
Header(text) == [present |-> TRUE, text |-> text]

Request(m, p, cl, b) == [method |-> m, path |-> p, cl |-> cl, body |-> b]
NoRequest == Request("none", <<>>, NoHeader, EmptyBody)

\* response bodies, tagged by their shape
RError(msg)   == [t |-> "error",   v |-> msg]
RStatus(s)    == [t |-> "status",  v |-> s]
RProject(r)   == [t |-> "project", v |-> r]
RProjects(rs) == [t |-> "projects", v |-> rs]
RFixed(what)  == [t |-> "fixed",   v |-> what]
RBuild(id)    == [t |-> "build",   v |-> id]
RHealth(s)    == [t |-> "health",  v |-> s]
RNothing      == [t |-> "nothing", v |-> 0]

\* send_response(status) ... wfile.write(json.dumps(body))
Respond(status, body) ==
    [status |-> status, body |-> body, cookie |-> FALSE, raised |-> FALSE]
\* the handler has sent nothing (yet)
NoResponse == Respond(0, RNothing)
\* an exception left the handler method before anything was sent
Raised == [status |-> 0, body |-> RNothing, cookie |-> FALSE, raised |-> TRUE]

Exchange(req, resp) == [req |-> req, resp |-> resp]
NoExchange == Exchange(NoRequest, NoResponse)

-----------------------------------------------------------------------------
(* mock-hydra-server.py: the project mapping *)

ProjectRecord(name, displayname, enabled) ==
    [name |-> name, displayname |-> displayname, enabled |-> enabled]

Nixpkgs == <<"nixpkgs">>
Hydra   == <<"hydra">>

\* projects_storage as the module is loaded
SeedStorage ==
    (Nixpkgs :> ProjectRecord(Nixpkgs, JStr(<<"Nixpkgs">>), JBool(TRUE)))
    @@ (Hydra :> ProjectRecord(Hydra, JStr(<<"Hydra">>), JBool(TRUE)))

\* list(projects_storage.values()), without its order
ProjectsList(storage) == {storage[n] : n \in DOMAIN storage}

\* del projects_storage[name]
Remove(storage, name) ==
    [n \in DOMAIN storage \ {name} |-> storage[n]]

\* projects_storage[name] = record
Put(storage, name, record) ==
    [n \in DOMAIN storage \cup {name} |->
        IF n = name THEN record ELSE storage[n]]

-----------------------------------------------------------------------------
(* MockHydraHandler.do_GET *)

Slash == "/"
ProjectPrefix == <<"/", "project", "/">>
BuildPrefix == <<"/", "build", "/">>
ConstituentsMark == <<"/", "constituents">>

NotFound == Respond(404, RError("not found"))
InvalidBuildId == Respond(400, RError("invalid build id"))

BuildRecord(id, nixname, finished, buildstatus) ==
    [id |-> id, nixname |-> nixname, finished |-> finished,
     buildstatus |-> buildstatus]

\* the dependency array of the constituents branch
Constituents == RFixed("constituents 123457 123458")
\* the composite result of the search branch
SearchResults == RFixed("search build 123456 project nixpkgs")
Jobset == RFixed("jobset trunk")
JobsetList == RFixed("jobsets [trunk]")

\* a slip: parts[2], the first segment after /project/, for parts[-1]
GetProjectNameFirst(path) == Split(path, Slash)[3]

\* project_name = self.path.split("/")[-1] of do_GET
GetProjectName(path) == Last(Split(path, Slash))

\* the /project/ branch of do_GET
GetProject(storage, path) ==
    LET project_name == GetProjectName(path) IN
    IF project_name \in DOMAIN storage
    THEN Respond(200, RProject(storage[project_name]))
    ELSE NotFound

\* the /jobset/ branch of do_GET
GetJobset(path) ==
    LET parts == Split(path, Slash) IN
    IF Len(parts) >= 4 /\ parts[3] = <<"nixpkgs">> /\ parts[4] = <<"trunk">>
    THEN Respond(200, Jobset)
    ELSE NotFound

\* the /build/ branch of do_GET
GetBuild(path) ==
    LET build_id == ParseInt(Last(Split(path, Slash))) IN
    IF ~build_id.ok THEN InvalidBuildId
    ELSE IF build_id.n = 123456
         THEN Respond(200, RBuild(BuildRecord(123456, "hello-2.12.1",
                                              TRUE, JNum(0))))
    ELSE IF build_id.n = 123459
         THEN Respond(200, RBuild(BuildRecord(123459, "hello-in-progress",
                                              FALSE, JNull)))
    ELSE IF build_id.n = 123460
         THEN Respond(200, RBuild(BuildRecord(123460, "hello-failed",
                                              TRUE, JNum(1))))
    ELSE NotFound

\* the "/constituents" branch of do_GET
GetConstituents(path) ==
    LET path_parts == Split(path, Slash) IN
    IF Len(path_parts) >= 3 /\ path_parts[2] = <<"build">>
    THEN LET build_id == ParseInt(path_parts[3]) IN
         IF ~build_id.ok THEN InvalidBuildId
         ELSE IF build_id.n \in {123456, 123459, 123460}
              THEN Respond(200, Constituents)
         ELSE NotFound
    ELSE NotFound

\* do_GET: the routes in source order, the first match wins
GetResponse(storage, path) ==
    IF path = <<"/">> /\ ~Contains(path, <<"api">>)
    THEN Respond(200, RProjects(ProjectsList(storage)))
    ELSE IF StartsWith(path, <<"/", "api", "/", "v1", "/", "projects">>)
    THEN Respond(200, RProjects(ProjectsList(storage)))
    ELSE IF StartsWith(path, ProjectPrefix) THEN GetProject(storage, path)
    ELSE IF StartsWith(path, <<"/", "api", "/", "jobsets">>)
    THEN Respond(200, JobsetList)
    ELSE IF StartsWith(path, <<"/", "jobset", "/">>) THEN GetJobset(path)
    ELSE IF StartsWith(path, BuildPrefix) THEN GetBuild(path)
    ELSE IF Contains(path, ConstituentsMark) THEN GetConstituents(path)
    ELSE IF \/ StartsWith(path, <<"/", "api", "/", "search">>)
            \/ StartsWith(path, <<"/", "search">>)
    THEN Respond(200, SearchResults)
    ELSE Respond(200, RStatus("ok"))

-----------------------------------------------------------------------------
(* MockHydraHandler.do_POST *)

\* int(self.headers.get('Content-Length', 0))
ContentLength(req) ==
    IF req.cl.present THEN ParseInt(req.cl.text)
    ELSE [ok |-> TRUE, n |-> 0]

RECURSIVE FormField(_, _, _, _)
\* the loop over data_str.split('&'): the last parameter that starts with
\* the prefix sets the field to param.split('=')[1]
FormField(params, prefix, i, acc) ==
    IF i > Len(params) THEN acc
    ELSE IF StartsWith(params[i], prefix)
         THEN FormField(params, prefix, i + 1,
                        JStr(Split(params[i], "=")[2]))
    ELSE FormField(params, prefix, i + 1, acc)

\* the credentials do_POST reads from a non-empty login body;
\* ok is FALSE where the code raises
Credentials(post_data) ==
    IF HasUsernameEq(post_data)
    THEN IF ~Decodes(post_data)
         THEN [ok |-> FALSE, why |-> "UnicodeDecodeError",
               username |-> JNull, password |-> JNull]
         ELSE LET params == Split(BodyText(post_data), "&")
              IN [ok |-> TRUE, why |-> "",
                  username |-> FormField(params, UsernameEq, 1, JNull),
                  password |-> FormField(params, PasswordEq, 1, JNull)]
    ELSE IF ~Decodes(post_data)
         THEN [ok |-> FALSE, why |-> "UnicodeDecodeError",
               username |-> JNull, password |-> JNull]
    ELSE IF ~JsonLoads(post_data).ok
         THEN [ok |-> FALSE, why |-> "JSONDecodeError",
               username |-> JNull, password |-> JNull]
    ELSE LET data == JsonLoads(post_data).val IN
         IF data.t # "obj"
         THEN [ok |-> FALSE, why |-> "AttributeError",
               username |-> JNull, password |-> JNull]
         ELSE [ok |-> TRUE, why |-> "",
               username |-> DictGet(data, "username", JNull),
               password |-> DictGet(data, "password", JNull)]

Admin == JStr(<<"admin">>)

LoginOk ==
    [status |-> 200, body |-> RFixed("user admin"), cookie |-> TRUE,
     raised |-> FALSE]

\* the /login branch of do_POST
PostLogin(post_data) ==
    IF NonEmpty(post_data)
    THEN LET c == Credentials(post_data) IN
         IF ~c.ok THEN Respond(500, RError(c.why))
         ELSE IF c.username = Admin /\ c.password = Admin THEN LoginOk
         ELSE Respond(401, RError("unauthorized"))
    ELSE Respond(400, RError("missing credentials"))

\* project_name = self.path.split("/")[-1] of do_POST
PostProjectName(path) == Last(Split(path, Slash))

\* the fallback record of the /project/ branch
DefaultProjectData(project_name) ==
    [t |-> "obj",
     v |-> [username |-> Absent, password |-> Absent,
            displayname |-> JStr(Title(project_name)),
            enabled |-> JBool(TRUE), note |-> Absent]]

\* project_data of the /project/ branch, from the bytes of its own read
ProjectData(project_name, post_data) ==
    IF NonEmpty(post_data)
    THEN IF Decodes(post_data) /\ JsonLoads(post_data).ok
         THEN JsonLoads(post_data).val
         ELSE DefaultProjectData(project_name)
    ELSE DefaultProjectData(project_name)

\* a slip: the name field is title-cased like the display name
StoredRecordTitled(project_name, project_data) ==
    ProjectRecord(Title(project_name),
                  DictGet(project_data, "displayname",
                          JStr(Title(project_name))),
                  DictGet(project_data, "enabled", JBool(TRUE)))

\* the record the /project/ branch stores
StoredRecord(project_name, project_data) ==
    ProjectRecord(project_name,
                  DictGet(project_data, "displayname",
                          JStr(Title(project_name))),
                  DictGet(project_data, "enabled", JBool(TRUE)))

\* the /project/ branch of do_POST once its read has returned post_data:
\* the new mapping and the response
PostProject(storage, path, post_data) ==
    LET project_name == PostProjectName(path)
        project_data == ProjectData(project_name, post_data)
    IN IF project_data.t # "obj"
       THEN [storage |-> storage,
             resp |-> Respond(500, RError("AttributeError"))]
       ELSE LET stored == Put(storage, project_name,
                              StoredRecord(project_name, project_data))
            IN [storage |-> stored,
                resp |-> Respond(200, RProject(stored[project_name]))]

\* b'{}', what the /project/ branch takes when Content-Length is not positive
EmptyObject == JsonText(JObj(Absent, Absent, Absent, Absent, Absent))

-----------------------------------------------------------------------------
(* MockHydraHandler.do_DELETE and do_PUT *)

\* project_name = self.path.split("/")[-1] of do_DELETE
DeleteProjectName(path) == Last(Split(path, Slash))

\* a slip: the entry is reported as deleted and kept
DeleteNothing(storage, path) == storage

\* the mapping after do_DELETE on a /project/ path
DeleteProject(storage, path) == Remove(storage, DeleteProjectName(path))

\* do_DELETE: the new mapping and the response
Delete(storage, path) ==
    IF StartsWith(path, ProjectPrefix)
    THEN IF DeleteProjectName(path) \in DOMAIN storage
         THEN [storage |-> DeleteProject(storage, path),
               resp |-> Respond(200, RStatus("deleted"))]
         ELSE [storage |-> storage, resp |-> NotFound]
    ELSE [storage |-> storage, resp |-> Respond(200, RStatus("deleted"))]

\* a slip: PUT on a /project/ path writes the entry
PutStores(storage, path) ==
    [storage |-> IF StartsWith(path, ProjectPrefix)
                 THEN Put(storage, Last(Split(path, Slash)),
                          ProjectRecord(Last(Split(path, Slash)),
                                        JStr(<<"put">>), JBool(TRUE)))
                 ELSE storage,
     resp |-> Respond(200, RStatus("updated"))]

\* do_PUT: the new mapping and the response
Put200(storage, path) ==
    [storage |-> storage, resp |-> Respond(200, RStatus("updated"))]

-----------------------------------------------------------------------------
(* The Mock API Server handles one connection at a time: a request is      *)
(* taken only while the process runs and the handler thread is idle.       *)

Serving == mock_running /\ pc = "idle"

do_GET(path) ==
    /\ Serving
    /\ cur' = Exchange(Request("GET", path, NoHeader, EmptyBody),
                       GetResponse(projects_storage, path))
    /\ prev' = cur
    /\ turn' = "GET"
    /\ UNCHANGED <<projects_storage, mock_running, pc, health>>

\* do_POST up to the point where it returns or waits in its second
\* rfile.read.  The client sends exactly Content-Length bytes of body, which
\* the first read consumes.
do_POST(req) ==
    /\ Serving
    /\ prev' = cur
    /\ turn' = "POST"
    /\ UNCHANGED <<mock_running, health>>
    /\ LET content_length == ContentLength(req)
           post_data == IF content_length.n > 0 THEN req.body ELSE EmptyBody
       IN IF ~content_length.ok
          THEN /\ cur' = Exchange(req, Raised)
               /\ UNCHANGED <<projects_storage, pc>>
          ELSE IF req.path = <<"/", "login">>
          THEN /\ cur' = Exchange(req, PostLogin(post_data))
               /\ UNCHANGED <<projects_storage, pc>>
          ELSE IF StartsWith(req.path, ProjectPrefix)
          THEN IF content_length.n > 0
               THEN \* the body is consumed: the second read waits for
                    \* more bytes or for the end of the stream
                    /\ cur' = Exchange(req, NoResponse)
                    /\ pc' = "reading"
                    /\ UNCHANGED projects_storage
               ELSE LET r == PostProject(projects_storage, req.path,
                                         EmptyObject)
                    IN /\ projects_storage' = r.storage
                       /\ cur' = Exchange(req, r.resp)
                       /\ UNCHANGED pc
          ELSE /\ cur' = Exchange(req, Respond(200, RStatus("created")))
               /\ UNCHANGED <<projects_storage, pc>>

\* the second rfile.read of the /project/ branch returns: with nothing when
\* the client ends the stream, or with the bytes the client sent after the
\* body; the branch then runs to its end
second_read(data) ==
    /\ mock_running
    /\ pc = "reading"
    /\ LET r == PostProject(projects_storage, cur.req.path, data)
       IN /\ projects_storage' = r.storage
          /\ cur' = Exchange(cur.req, r.resp)
    /\ pc' = "idle"
    /\ turn' = "POST"
    /\ UNCHANGED <<mock_running, prev, health>>

do_PUT(req) ==
    /\ Serving
    /\ LET r == Put200(projects_storage, req.path)
       IN /\ projects_storage' = r.storage
          /\ cur' = Exchange(req, r.resp)
    /\ prev' = cur
    /\ turn' = "PUT"
    /\ UNCHANGED <<mock_running, pc, health>>

do_DELETE(path) ==
    /\ Serving
    /\ LET r == Delete(projects_storage, path)
       IN /\ projects_storage' = r.storage
          /\ cur' = Exchange(Request("DELETE", path, NoHeader, EmptyBody),
                             r.resp)
    /\ prev' = cur
    /\ turn' = "DELETE"
    /\ UNCHANGED <<mock_running, pc, health>>

\* the process is terminated from outside; it never exits on its own
stop_mock ==
    /\ mock_running
    /\ mock_running' = FALSE
    /\ turn' = "stop"
    /\ UNCHANGED <<projects_storage, pc, cur, prev, health>>

-----------------------------------------------------------------------------
(* The health listeners *)

HealthPath == <<"/", "health">>

HealthExchange(server, path, probes, probe, resp) ==
    [server |-> server, path |-> path, probes |-> probes, probe |-> probe,
     resp |-> resp]
NoHealth == HealthExchange("none", <<>>, 0, "none", NoResponse)

\* urlopen("http://localhost:3000/", timeout=5): what the one outbound
\* request meets
ProbeOutcome ==
    IF ~mock_running THEN "refused"
    ELSE IF pc # "idle" THEN "timeout"
    ELSE "answered"

\* health-check.py, HealthHandler.do_GET: the response to an outcome of the
\* probe; status is the status of the answer, if there is one
HealthCheckResponse(outcome, status) ==
    IF outcome = "answered" /\ status = 200
    THEN Respond(200, RHealth("healthy"))
    ELSE IF outcome = "answered"
    THEN Respond(503, RHealth("unhealthy: Hydra not responding"))
    ELSE Respond(503, RHealth("unhealthy: " \o outcome))

\* health-check.py, HealthHandler.do_GET.  The probe is a GET / that the
\* Mock API Server handles when it can.
health_check_GET(path) ==
    /\ turn' = "health"
    /\ UNCHANGED <<projects_storage, mock_running, pc>>
    /\ IF path = HealthPath
       THEN LET outcome == ProbeOutcome
                answer == GetResponse(projects_storage, <<"/">>)
            IN /\ health' = HealthExchange("health-check.py", path, 1, outcome,
                                HealthCheckResponse(outcome, answer.status))
               /\ IF outcome = "answered"
                  THEN /\ cur' = Exchange(Request("GET", <<"/">>, NoHeader,
                                                  EmptyBody), answer)
                       /\ prev' = cur
                  ELSE UNCHANGED <<cur, prev>>
       ELSE /\ health' = HealthExchange("health-check.py", path, 0, "none",
                                        Respond(404, RNothing))
            /\ UNCHANGED <<cur, prev>>

\* mock-hydra-server.py, HealthHandler.do_GET: the response of the listener
\* that start_health_server runs on a thread of the mock's own process
BuiltinHealthResponse(path) ==
    IF path = HealthPath THEN Respond(200, RHealth("healthy"))
    ELSE Respond(404, RNothing)

builtin_health_GET(path) ==
    /\ mock_running
    /\ health' = HealthExchange("mock-hydra-server.py", path, 0, "none",
                                BuiltinHealthResponse(path))
    /\ turn' = "health"
    /\ UNCHANGED <<projects_storage, mock_running, pc, cur, prev>>

-----------------------------------------------------------------------------
(* The requests of the stateful specification *)

Foo == <<"foo">>
Custom == JStr(<<"foo", "-", "bar">>)

ProjectPath(name) == ProjectPrefix \o name

NameSegments == {Nixpkgs, Foo}

\* /project/ paths of up to MaxNameSegs segments, and one that ends in a
\* slash (its project name is the empty string)
SpecProjectPaths ==
    {ProjectPath(Join(segs, Slash, 1)) :
        segs \in SeqsOf(NameSegments, 1, MaxNameSegs)}
    \cup {ProjectPath(Foo) \o <<"/">>}

Root == <<"/">>
LoginPath == <<"/", "login">>

\* a positive Content-Length, the length of the body that is sent with it
BodyLength == Header(<<"4", "1">>)

FormAdmin ==
    Raw(<<"username", "=", "admin", "&", "password", "=", "admin">>)
CustomProject == JsonText(JObj(Absent, Absent, Custom, JBool(FALSE), Absent))

SpecBodies == {CustomProject, JsonText(JArr(1))}

SpecGets == SpecProjectPaths \cup {Root, ProjectPath(Hydra)}

SpecPosts ==
    {Request("POST", p, NoHeader, EmptyBody) :
        p \in SpecProjectPaths \cup {LoginPath, Root}}
    \cup {Request("POST", p, Header(<<"abc">>), EmptyBody) :
             p \in {LoginPath, ProjectPath(Foo)}}
    \cup {Request("POST", LoginPath, BodyLength, FormAdmin)}
    \cup {Request("POST", p, BodyLength, CustomProject) :
             p \in SpecProjectPaths}

SpecPuts == {Request("PUT", ProjectPath(Foo), BodyLength, CustomProject)}

SpecDeletes == SpecProjectPaths \cup {Root}

\* what the second read of a /project/ POST can return
SecondReads == {EmptyBody} \cup SpecBodies

Init ==
    /\ projects_storage = SeedStorage
    /\ mock_running = TRUE
    /\ pc = "idle"
    /\ cur = NoExchange
    /\ prev = NoExchange
    /\ health = NoHealth
    /\ turn = "start"

\* the Mock API Server and its clients
Next ==
    \/ \E path \in SpecGets : do_GET(path)
    \/ \E req \in SpecPosts : do_POST(req)
    \/ \E data \in SecondReads : second_read(data)
    \/ \E req \in SpecPuts : do_PUT(req)
    \/ \E path \in SpecDeletes : do_DELETE(path)

Spec == Init /\ [][Next]_vars

\* both servers, their clients and the termination of the mock's process
FullGets == {Root, ProjectPath(Foo)}
FullPosts ==
    { Request("POST", ProjectPath(Foo), NoHeader, EmptyBody),
      Request("POST", ProjectPath(Foo), BodyLength, CustomProject),
      Request("POST", LoginPath, BodyLength, FormAdmin),
      Request("POST", Root, NoHeader, EmptyBody) }
FullReads == {EmptyBody, CustomProject}
FullDeletes == {Root, ProjectPath(Foo), ProjectPath(Nixpkgs)}
HealthPaths == {HealthPath, Root}

FullNext ==
    \/ \E path \in FullGets : do_GET(path)
    \/ \E req \in FullPosts : do_POST(req)
    \/ \E data \in FullReads : second_read(data)
    \/ \E req \in SpecPuts : do_PUT(req)
    \/ \E path \in FullDeletes : do_DELETE(path)
    \/ \E path \in HealthPaths : health_check_GET(path)
    \/ \E path \in HealthPaths : builtin_health_GET(path)
    \/ stop_mock

FullSpec == Init /\ [][FullNext]_vars

-----------------------------------------------------------------------------
(* The routing specification: one request, drawn from a wide set, is       *)
(* handled in a state the mapping can be in.                               *)

Id123456 == <<"1", "2", "3", "4", "5", "6">>
Id123459 == <<"1", "2", "3", "4", "5", "9">>
Id123460 == <<"1", "2", "3", "4", "6", "0">>
KnownIds == {Id123456, Id123459, Id123460}

RouteSegments ==
    { <<"build">>, Id123456, Id123460, <<"7">>, <<"abc">>, <<"constituents">>,
      <<"search">>, <<"search", "?", "q", "=">>, <<"api">>, <<"x">> }

\* request targets of up to MaxSegs segments, with the leading slash or
\* (as the handler also accepts them) without
RoutePaths ==
    {<<"/">> \o Join(segs, Slash, 1) : segs \in SeqsOf(RouteSegments, 1, MaxSegs)}
    \cup {Join(segs, Slash, 1) : segs \in SeqsOf(RouteSegments, MaxSegs, MaxSegs)}

Bob == JStr(<<"bob">>)

RouteParams ==
    { <<"username", "=", "admin">>, <<"username", "=", "bob">>,
      <<"password", "=", "admin">>, <<"password", "=", "bob">>,
      <<"password", "=", "admin", "=", "x">>, <<"x", "=", "1">> }

FormBodies ==
    {Raw(Join(params, "&", 1)) : params \in SeqsOf(RouteParams, 1, MaxParams)}

JsonLogins ==
    {JsonText(JObj(u, p, Absent, Absent, n)) :
        u \in {Absent, Admin, Bob}, p \in {Absent, Admin, JNull},
        n \in {Absent, JStr(<<"username", "=", "x">>)}}

OtherBodies ==
    { JsonText(JArr(1)), JsonText(Admin), Raw(<<"abc">>), Raw(<<"7">>),
      Raw(<<BadByte>>), Raw(<<BadByte, "username", "=", "admin">>) }

RouteLogins ==
    {Request("POST", p, BodyLength, b) :
        p \in {LoginPath, LoginPath \o <<"?", "q", "=">>},
        b \in FormBodies \cup JsonLogins \cup OtherBodies}
    \cup {Request("POST", LoginPath, cl, EmptyBody) :
             cl \in {NoHeader, Header(<<"0">>), Header(<<"-", "1">>)}}

RouteStorages ==
    {SeedStorage, Remove(SeedStorage, Nixpkgs), Remove(SeedStorage, Hydra)}

RouteInit ==
    /\ projects_storage \in RouteStorages
    /\ mock_running = TRUE
    /\ pc = "idle"
    /\ cur = NoExchange
    /\ prev = NoExchange
    /\ health = NoHealth
    /\ turn = "start"

\* the first request after the start
route_GET == turn = "start" /\ \E path \in RoutePaths : do_GET(path)
route_POST == turn = "start" /\ \E req \in RouteLogins : do_POST(req)

RouteNext == route_GET \/ route_POST

RouteSpec == RouteInit /\ [][RouteNext]_vars

-----------------------------------------------------------------------------
(* Notions of the claims *)

\* the path names a project: /project/{name}
IsProjectPath(path) == StartsWith(path, ProjectPrefix)
\* {name}: the last segment of the path
NameOf(path) == Last(Split(path, Slash))
\* the handler that served cur has returned
Returned == pc = "idle" /\ cur.req.method # "none"

DefaultRecord(name) == ProjectRecord(name, JStr(Title(name)), JBool(TRUE))

-----------------------------------------------------------------------------
(* C1: create-then-read consistency.  When a POST /project/{name} was      *)
(* answered with 200 and the very next request is GET on the same path,    *)
(* the GET returns 200 with exactly the record the POST returned, which is *)
(* the record stored under {name}.                                         *)
C1_CreateThenRead ==
    ( /\ turn = "GET"
      /\ cur.req.method = "GET"
      /\ prev.req.method = "POST"
      /\ IsProjectPath(prev.req.path)
      /\ prev.resp.status = 200
      /\ cur.req.path = prev.req.path )
    => /\ cur.resp.status = 200
       /\ cur.resp.body = prev.resp.body
       /\ NameOf(cur.req.path) \in DOMAIN projects_storage
       /\ cur.resp.body = RProject(projects_storage[NameOf(cur.req.path)])

\* a seed entry was overwritten with a record taken from the bytes of the
\* second read, and read back
C1_Witness ==
    /\ turn = "GET"
    /\ cur.req.method = "GET"
    /\ prev.req.method = "POST"
    /\ prev.resp.status = 200
    /\ cur.req.path = ProjectPath(Nixpkgs)
    /\ prev.req.path = cur.req.path
    /\ cur.resp.status = 200
    /\ cur.resp.body.v.displayname = Custom

-----------------------------------------------------------------------------
(* C3: DELETE /project/{name} answers 200 {"status":"deleted"} and removes *)
(* exactly the entry {name} when it is in the mapping, and answers 404 and *)
(* leaves the mapping unchanged when it is not; a GET on the same path     *)
(* handled next returns 404; and an absent name stays absent until a POST  *)
(* for that name.                                                          *)
C3_Step ==
    /\ (turn' = "DELETE" /\ IsProjectPath(cur'.req.path))
       => LET name == NameOf(cur'.req.path) IN
          IF name \in DOMAIN projects_storage
          THEN /\ cur'.resp = Respond(200, RStatus("deleted"))
               /\ projects_storage' = Remove(projects_storage, name)
          ELSE /\ cur'.resp.status = 404
               /\ projects_storage' = projects_storage
    /\ ( /\ turn' = "GET"
         /\ cur.req.method = "DELETE"
         /\ IsProjectPath(cur.req.path)
         /\ cur'.req.path = cur.req.path )
       => cur'.resp.status = 404
    /\ \A name \in DOMAIN projects_storage' \ DOMAIN projects_storage :
          /\ turn' = "POST"
          /\ IsProjectPath(cur'.req.path)
          /\ NameOf(cur'.req.path) = name

C3_DeleteObservable == [][C3_Step]_vars

\* a stored entry was deleted with 200 and the GET that followed got 404,
\* while another entry is still stored
C3_Witness ==
    /\ turn = "GET"
    /\ prev.req.method = "DELETE"
    /\ prev.resp = Respond(200, RStatus("deleted"))
    /\ cur.req.path = prev.req.path
    /\ cur.req.path = ProjectPath(Nixpkgs)
    /\ cur.resp.status = 404
    /\ Foo \in DOMAIN projects_storage

-----------------------------------------------------------------------------
(* C4 as amended: in every reachable state every stored record has name    *)
(* equal to its key, and a GET /project/{name} returns 200 with the stored *)
(* record (whose name is the requested name) exactly when {name} is a key, *)
(* and 404 with an error field otherwise; the seed names nixpkgs and hydra *)
(* are keys in the initial state, and a seed name stops being a key only   *)
(* by a DELETE /project/{name} for that name.                              *)
SeedNames == {Nixpkgs, Hydra}

C4_State ==
    /\ \A name \in DOMAIN projects_storage :
          projects_storage[name].name = name
    /\ (turn = "GET" /\ cur.req.method = "GET" /\ IsProjectPath(cur.req.path))
       => LET name == NameOf(cur.req.path) IN
          IF name \in DOMAIN projects_storage
          THEN /\ cur.resp = Respond(200, RProject(projects_storage[name]))
               /\ cur.resp.body.v.name = name
          ELSE /\ cur.resp.status = 404
               /\ cur.resp.body.t = "error"

C4_SeedStep ==
    \A name \in SeedNames :
       (name \in DOMAIN projects_storage /\ name \notin DOMAIN projects_storage')
       => /\ turn' = "DELETE"
          /\ IsProjectPath(cur'.req.path)
          /\ NameOf(cur'.req.path) = name

C4_GetProject ==
    /\ SeedNames \subseteq DOMAIN projects_storage
    /\ []C4_State
    /\ [][C4_SeedStep]_vars

\* C4 as stated: the above for GET, and for every seed name a GET
\* /project/{name} returns 200 with a record of that name
C4_AsStated ==
    /\ C4_State
    /\ ( /\ turn = "GET"
         /\ cur.req.method = "GET"
         /\ IsProjectPath(cur.req.path)
         /\ NameOf(cur.req.path) \in SeedNames )
       => /\ cur.resp.status = 200
          /\ cur.resp.body.v.name = NameOf(cur.req.path)

\* a GET of a seed name that a POST has overwritten, and that no DELETE has
\* removed, returned 200 with the record of that name
C4_Witness ==
    /\ turn = "GET"
    /\ cur.req.path = ProjectPath(Nixpkgs)
    /\ cur.resp.status = 200
    /\ cur.resp.body.v.name = Nixpkgs
    /\ cur.resp.body.v.displayname = Custom
    /\ Hydra \in DOMAIN projects_storage

-----------------------------------------------------------------------------
(* C9: a step changes the project mapping only when it is a POST or a      *)
(* DELETE on a path that starts with /project/; it then changes the one    *)
(* entry named by the last segment of the path (a POST leaves it stored, a *)
(* DELETE leaves it absent) and no other entry.  GET, PUT, POST /login,    *)
(* other POSTs and DELETEs, requests that are answered with another status *)
(* than 200, and the requests to the health listeners change nothing.      *)
C9_Step ==
    /\ projects_storage' # projects_storage
       => /\ turn' \in {"POST", "DELETE"}
          /\ cur'.req.method = turn'
          /\ cur'.resp.status = 200
          /\ IsProjectPath(cur'.req.path)
          /\ LET name == NameOf(cur'.req.path) IN
             /\ DOMAIN projects_storage' \ {name}
                  = DOMAIN projects_storage \ {name}
             /\ \A other \in DOMAIN projects_storage \ {name} :
                   projects_storage'[other] = projects_storage[other]
             /\ turn' = "POST" => name \in DOMAIN projects_storage'
             /\ turn' = "DELETE" => name \notin DOMAIN projects_storage'

-----------------------------------------------------------------------------
(* C2: a POST /project/{name} whose handler has returned was answered 200  *)
(* with the stored record; when its body is a JSON object that carries     *)
(* displayname and enabled, the stored record carries those two values and *)
(* name = {name}; when its body is missing or is not parseable as JSON,    *)
(* the stored record is the default one.                                   *)
CarriesBoth(body) ==
    /\ body.t = "json"
    /\ body.v.t = "obj"
    /\ body.v.v.displayname # Absent
    /\ body.v.v.enabled # Absent

C2_PostStoresBody ==
    ( /\ turn = "POST"
      /\ Returned
      /\ cur.req.method = "POST"
      /\ IsProjectPath(cur.req.path)
      /\ ContentLength(cur.req).ok )
    => LET name == NameOf(cur.req.path)
           body == cur.req.body
       IN /\ cur.resp.status = 200
          /\ name \in DOMAIN projects_storage
          /\ cur.resp.body = RProject(projects_storage[name])
          /\ CarriesBoth(body)
             => projects_storage[name]
                  = ProjectRecord(name, body.v.v.displayname,
                                  body.v.v.enabled)
          /\ (~NonEmpty(body) \/ ~Decodes(body) \/ ~JsonLoads(body).ok)
             => projects_storage[name] = DefaultRecord(name)

-----------------------------------------------------------------------------
(* C8: every request the Mock API Server has handled ended with a response *)
(* whose status is one of 200, 400, 401, 404, 500 and whose body is a JSON *)
(* document, and no exception left the handler method.                     *)
C8_AlwaysResponds ==
    Returned
    => /\ ~cur.resp.raised
       /\ cur.resp.status \in {200, 400, 401, 404, 500}
       /\ cur.resp.body.t # "nothing"

-----------------------------------------------------------------------------
(* C7: a health listener answers GET /health with 200 "healthy" only when  *)
(* the probe it made for that request was answered with status 200, and    *)
(* with 503 "unhealthy" whenever the Mock API Server is not running or     *)
(* does not answer; it makes exactly one probe per health request.         *)
C7_HealthReflectsProbe ==
    (turn = "health" /\ health.path = HealthPath)
    => /\ health.probes = 1
       /\ health.resp.status \in {200, 503}
       /\ health.resp.status = 200
          => /\ health.probe = "answered"
             /\ health.resp.body = RHealth("healthy")
       /\ (~mock_running \/ pc # "idle") => health.resp.status = 503

-----------------------------------------------------------------------------
(* C5: a GET of /build/{id}/constituents returns 200 with the fixed        *)
(* two-element dependency array when {id} is 123456, 123459 or 123460,     *)
(* 404 for any other integer {id}, and 400 only when {id} is not           *)
(* parseable as an integer.                                                *)
IsConstituentsPath(path) ==
    LET parts == Split(path, Slash) IN
    /\ Len(parts) = 4
    /\ parts[1] = <<>>
    /\ parts[2] = <<"build">>
    /\ parts[4] = <<"constituents">>

C5_Constituents ==
    (turn = "GET" /\ cur.req.method = "GET" /\ IsConstituentsPath(cur.req.path))
    => LET id == Split(cur.req.path, Slash)[3] IN
       /\ id \in KnownIds => cur.resp = Respond(200, Constituents)
       /\ (ParseInt(id).ok /\ id \notin KnownIds) => cur.resp.status = 404
       /\ cur.resp.status = 400 => ~ParseInt(id).ok

-----------------------------------------------------------------------------
(* C10: a GET whose path starts with /api/search or /search returns 200    *)
(* with the fixed composite result, whatever the query string and the      *)
(* project mapping are.                                                    *)
IsSearchPath(path) ==
    \/ StartsWith(path, <<"/", "api", "/", "search">>)
    \/ StartsWith(path, <<"/", "search">>)

C10_Search ==
    (turn = "GET" /\ cur.req.method = "GET" /\ IsSearchPath(cur.req.path))
    => cur.resp = Respond(200, SearchResults)

-----------------------------------------------------------------------------
(* C6: POST /login with a non-empty body, URL-encoded or JSON, returns 200 *)
(* with the admin user record and the session cookie exactly when the      *)
(* submitted username and the submitted password are both "admin", and 401 *)
(* with any other credentials; with an empty body it returns 400; it       *)
(* returns 500 only when reading the credentials from the body raises.     *)

\* name=value: the name of a form parameter and its value, which is all
\* that follows the first "="
ParamName(param) == Split(param, "=")[1]
ParamValue(param) == SubSeq(param, Len(ParamName(param)) + 2, Len(param))

IsForm(body) ==
    /\ body.t = "raw"
    /\ Decodes(body)
    /\ \A param \in {Split(body.v, "&")[i] : i \in 1..Len(Split(body.v, "&"))} :
          Contains(param, <<"=">>)
IsJsonObject(body) == body.t = "json" /\ body.v.t = "obj"

\* the values submitted under a field name
Submitted(body, field) ==
    IF IsForm(body)
    THEN LET params == Split(body.v, "&") IN
         {JStr(ParamValue(params[i])) :
             i \in {j \in 1..Len(params) : ParamName(params[j]) = <<field>>}}
    ELSE IF IsJsonObject(body) /\ body.v.v[field] # Absent
         THEN {body.v.v[field]}
    ELSE {}

SubmitsAdmin(body) ==
    /\ Submitted(body, "username") = {Admin}
    /\ Submitted(body, "password") = {Admin}

C6_Login ==
    ( /\ turn = "POST"
      /\ cur.req.method = "POST"
      /\ cur.req.path = LoginPath )
    => LET body == cur.req.body IN
       IF ~NonEmpty(body) THEN cur.resp.status = 400
       ELSE /\ SubmitsAdmin(body) <=> cur.resp = LoginOk
            /\ cur.resp.status \in {200, 401, 500}
            /\ cur.resp.status = 500 <=> ~Credentials(body).ok

====
